---- MODULE Spec2Model ----
(***************************************************************************)
(* SalaryTrack: the record store (services/storageService.ts) kept in one  *)
(* localStorage item, and the React application (App.tsx, Scanner.tsx,     *)
(* Dashboard.tsx, History.tsx) that drives it.                             *)
(*                                                                         *)
(* Spec          : the storage service called directly with arbitrary       *)
(*                 inputs.                                                 *)
(* ExportSpec    : the service with exportData.                            *)
(* AppSpec       : the application's event handlers calling the service.   *)
(* InsightsSpec  : the application with the state of the Insights view    *)
(*                 and its calls of getFinancialInsights.                  *)
(* ScannerSpec   : the application with the state of the Scanner view and  *)
(*                 its calls of extractSalaryFromImage.                    *)
(* AnalyticsSpec : the figures the Dashboard and Insights views compute    *)
(*                 from the entries they are given.                        *)
(***************************************************************************)
EXTENDS Integers, Sequences, FiniteSets, TLC

(***************************************************************************)
(* Bounds of the model.                                                    *)
(***************************************************************************)
MaxStore == 3
MaxImportLen == 2
MaxCreated == 2
MaxPending == 1
MaxInFlight == 2
MaxLedger == 4

(***************************************************************************)
(* JavaScript values.                                                      *)
(***************************************************************************)
\* the value of a property that an object does not have
Undefined == "undefined"

\* ids of entries: UUIDs handed out by crypto.randomUUID, in the order they
\* are generated, and an id that only an imported file carries
UUIDs == <<"uuid-1", "uuid-2", "uuid-3", "uuid-4">>
ForeignId == "legacy-1"
Ids == {UUIDs[1], ForeignId, "no-such-id"}

\* new Date(d).getTime(): milliseconds since the epoch, here in days; NaN for
\* a string that is no date and for undefined
getTime(d) ==
  CASE d = "2023-01-01" -> [nan |-> FALSE, t |-> 19358]
    [] d = "2023-06-01" -> [nan |-> FALSE, t |-> 19509]
    [] d = "2024-01-01" -> [nan |-> FALSE, t |-> 19723]
    [] d = "2024-01-16" -> [nan |-> FALSE, t |-> 19738]
    [] d = "2024-06-01" -> [nan |-> FALSE, t |-> 19875]
    [] d = "2025-01-01" -> [nan |-> FALSE, t |-> 20089]
    [] OTHER -> [nan |-> TRUE, t |-> 0]

\* elements of a stored JSON array: an entry object, the JSON value null, or
\* an object of another shape such as {"a":1}
FinancialEntry(id, date, amount, source) ==
  [kind |-> "entry", id |-> id, date |-> date, amount |-> amount, source |-> source]
NullElement ==
  [kind |-> "null", id |-> Undefined, date |-> Undefined, amount |-> 0, source |-> Undefined]
ObjectElement ==
  [kind |-> "object", id |-> Undefined, date |-> Undefined, amount |-> 0, source |-> Undefined]

\* the entries the service is called with: two of one date (a tie), a later
\* one that reuses an id, and one whose date is no date
Entries ==
  { FinancialEntry(UUIDs[1], "2023-01-01", 1000, "Acme"),
    FinancialEntry(ForeignId, "2023-01-01", 1000, "Acme"),
    FinancialEntry(UUIDs[1], "2024-01-01", 1000, "Acme"),
    FinancialEntry(ForeignId, "", 1000, "Acme") }
Elements == Entries \cup {NullElement, ObjectElement}

(***************************************************************************)
(* JSON text.  A text is either not parseable, or it denotes a value; ws   *)
(* tells whether it carries insignificant white space (a pretty-printed    *)
(* file), which JSON.parse drops and JSON.stringify never writes.          *)
(***************************************************************************)
InvalidText == [syntax |-> "invalid", isArray |-> FALSE, items |-> <<>>, ws |-> FALSE]
NonArrayText == [syntax |-> "valid", isArray |-> FALSE, items |-> <<>>, ws |-> FALSE]
ArrayText(items, ws) == [syntax |-> "valid", isArray |-> TRUE, items |-> items, ws |-> ws]

\* JSON.parse: throws a SyntaxError on an unparseable text
JSONparse(text) ==
  IF text.syntax = "valid"
  THEN [threw |-> FALSE, isArray |-> text.isArray, items |-> text.items]
  ELSE [threw |-> TRUE, isArray |-> FALSE, items |-> <<>>]

\* JSON.stringify of an array: compact text
JSONstringify(items) == ArrayText(items, FALSE)

SeqsUpTo(S, n) == UNION {[1..k -> S] : k \in 0..n}

Range(s) == {s[i] : i \in 1..Len(s)}
Count(x, s) == Cardinality({i \in 1..Len(s) : s[i] = x})
\* the rearrangements of a sequence
Rearrangements(s) ==
  LET n == Len(s)
      bij == {p \in [1..n -> 1..n] : \A i, j \in 1..n : p[i] = p[j] => i = j}
  IN {[i \in 1..n |-> s[p[i]]] : p \in bij}

(***************************************************************************)
(* State.                                                                  *)
(***************************************************************************)
VARIABLES
  localStorage,   \* the item under STORAGE_KEY: <<>> when absent, else <<text>>
  download,       \* the file written by the last export: <<>> or <<text>>
  exportedAt,     \* history: getEntries() at the time of that export
  last,           \* history: the last service call, its argument and outcome
  entries,        \* App: useState entries
  activeView,     \* App: useState activeView
  phase,          \* App: "constructed", "mounted" (the mount effect has run)
                  \* or "crashed" (a render threw and React removed the tree)
  readers,        \* Dashboard: FileReaders whose onload has not fired yet
  uuidCount,      \* how many ids crypto.randomUUID has handed out
  event,          \* history: the last completed App event handler
  insights,       \* Insights: useState insights
  loading,        \* Insights: useState loading
  requests,       \* Insights: the getFinancialInsights calls in flight, each
                  \* the entries it was called with, in the order of the calls
  form,           \* Scanner: useState form
  scanning,       \* Scanner: useState loading
  extractions,    \* Scanner: the uploads under way, each "reading" (the
                  \* FileReader) or "extracting" (extractSalaryFromImage)
  ledger,         \* Dashboard, Insights: the entries prop, with the fields
                  \* the figures are computed from
  report          \* Dashboard, Insights: <<>> or <<the figures of the last
                  \* render>>

storeVars == <<localStorage, download, exportedAt, last>>
appVars == <<entries, activeView, phase, readers, uuidCount, event>>
insightsVars == <<insights, loading, requests>>
scannerVars == <<form, scanning, extractions>>
analyticsVars == <<ledger, report>>
viewVars == <<insightsVars, scannerVars, analyticsVars>>
vars == <<localStorage, download, exportedAt, last,
          entries, activeView, phase, readers, uuidCount, event,
          insights, loading, requests, form, scanning, extractions,
          ledger, report>>

(***************************************************************************)
(* storageService: the pure parts.                                         *)
(***************************************************************************)
\* getEntries: [] when the item is absent or does not parse
getEntries(item) ==
  IF item = <<>> THEN <<>>
  ELSE IF JSONparse(item[1]).threw THEN <<>>
  ELSE JSONparse(item[1]).items

\* the comparator of saveEntry's sort: reading .date of null throws
compareThrows(a, b) == a.kind = "null" \/ b.kind = "null"
\* its value, where it does not throw, as sort uses it: the sign of
\* time(b) - time(a), and +0 when that is NaN
compare(a, b) ==
  LET ta == getTime(a.date)
      tb == getTime(b.date)
  IN IF ta.nan \/ tb.nan THEN 0
     ELSE IF tb.t - ta.t < 0 THEN -1
     ELSE IF tb.t - ta.t > 0 THEN 1
     ELSE 0

\* Array.prototype.sort calls the comparator on every element of an array of
\* two or more elements
sortThrows(s) ==
  \E i, j \in 1..Len(s) : i # j /\ compareThrows(s[i], s[j])

\* ECMAScript's "consistent comparator" over the elements being sorted
consistentComparator(s) ==
  \A a, b, c \in Range(s) :
    /\ (compare(a, b) = 0 /\ compare(b, c) = 0) => compare(a, c) = 0
    /\ (compare(a, b) < 0 /\ compare(b, c) < 0) => compare(a, c) < 0
    /\ (compare(a, b) > 0 /\ compare(b, c) > 0) => compare(a, c) > 0
    /\ (compare(a, b) < 0) <=> (compare(b, a) > 0)

\* the stable sort of s under a consistent comparator
RECURSIVE stableSort(_)
stableSort(s) ==
  IF s = <<>> THEN <<>>
  ELSE LET t == stableSort(SubSeq(s, 1, Len(s) - 1))
           x == s[Len(s)]
           k == Cardinality({i \in 1..Len(t) : compare(t[i], x) <= 0})
       IN SubSeq(t, 1, k) \o <<x>> \o SubSeq(t, k + 1, Len(t))

\* the arrays sort may return: the stable sort when the comparator is
\* consistent, otherwise an implementation-defined rearrangement
sortOutcomes(s) ==
  IF consistentComparator(s) THEN {stableSort(s)} ELSE Rearrangements(s)

\* a variant that replaces a stored entry of the same id (update in place)
saveEntryUpdatedUpsert(stored, entry) ==
  sortOutcomes(Append(SelectSeq(stored, LAMBDA e : e.id # entry.id), entry))

\* saveEntry's `updated`
saveEntryUpdated(stored, entry) == sortOutcomes(Append(stored, entry))

\* deleteEntry's `updated`; reading .id of null throws
deleteEntryThrows(stored) == \E x \in Range(stored) : x.kind = "null"
deleteEntryUpdated(stored, id) == SelectSeq(stored, LAMBDA e : e.id # id)

\* a variant that also wants every element to be an entry object
importDataAcceptsEntriesOnly(jsonData) ==
  /\ ~JSONparse(jsonData).threw
  /\ JSONparse(jsonData).isArray
  /\ \A x \in Range(JSONparse(jsonData).items) : x.kind = "entry"

\* a variant that forgets Array.isArray
importDataAcceptsAnyJSON(jsonData) == ~JSONparse(jsonData).threw

\* importData's test of the parsed text
importDataAccepts(jsonData) ==
  ~JSONparse(jsonData).threw /\ JSONparse(jsonData).isArray

\* a variant that writes only the entry objects, serialized anew
exportDataBlobEntriesOnly(item) ==
  JSONstringify(SelectSeq(getEntries(item), LAMBDA e : e.kind = "entry"))

\* exportData's blob: the raw item
exportDataBlob(item) == item[1]

(***************************************************************************)
(* storageService: the operations.                                         *)
(***************************************************************************)
\* the record of a call: its name, outcome and arguments (those it does not
\* take are blank)
Call(op, ret, id, entry, blob) ==
  [op |-> op, ret |-> ret, id |-> id, entry |-> entry, blob |-> blob]
NoCall == Call("none", "none", Undefined, NullElement, InvalidText)

saveEntry(entry) ==
  LET stored == getEntries(localStorage)
  IN /\ IF sortThrows(Append(stored, entry))
        THEN /\ localStorage' = localStorage
             /\ last' = Call("saveEntry", "TypeError", entry.id, entry, InvalidText)
        ELSE \E updated \in saveEntryUpdated(stored, entry) :
               /\ localStorage' = <<JSONstringify(updated)>>
               /\ last' = Call("saveEntry", "ok", entry.id, entry, InvalidText)
     /\ UNCHANGED <<download, exportedAt>>

deleteEntry(id) ==
  LET stored == getEntries(localStorage)
  IN /\ IF deleteEntryThrows(stored)
        THEN /\ localStorage' = localStorage
             /\ last' = Call("deleteEntry", "TypeError", id, NullElement, InvalidText)
        ELSE /\ localStorage' = <<JSONstringify(deleteEntryUpdated(stored, id))>>
             /\ last' = Call("deleteEntry", "ok", id, NullElement, InvalidText)
     /\ UNCHANGED <<download, exportedAt>>

exportData ==
  IF localStorage = <<>>
  THEN /\ last' = Call("exportData", "none", Undefined, NullElement, InvalidText)
       /\ UNCHANGED <<localStorage, download, exportedAt>>
  ELSE /\ download' = <<exportDataBlob(localStorage)>>
       /\ exportedAt' = getEntries(localStorage)
       /\ last' = Call("exportData", "file", Undefined, NullElement, InvalidText)
       /\ UNCHANGED localStorage

importData(jsonData) ==
  /\ IF importDataAccepts(jsonData)
     THEN /\ localStorage' = <<jsonData>>
          /\ last' = Call("importData", "true", Undefined, NullElement, jsonData)
     ELSE /\ localStorage' = localStorage
          /\ last' = Call("importData", "false", Undefined, NullElement, jsonData)
  /\ UNCHANGED <<download, exportedAt>>

clearAll ==
  /\ localStorage' = <<>>
  /\ last' = Call("clearAll", "ok", Undefined, NullElement, InvalidText)
  /\ UNCHANGED <<download, exportedAt>>

(***************************************************************************)
(* Spec: the service called directly.  exportData leaves the item alone    *)
(* and is exercised in ExportSpec.                                         *)
(***************************************************************************)
Files ==
  {InvalidText, NonArrayText}
    \cup {ArrayText(s, w) : s \in SeqsUpTo(Elements, MaxImportLen), w \in BOOLEAN}

\* the form of the Scanner view: amount 0 and source "" are its blanks
Form(amount, source, date) == [amount |-> amount, source |-> source, date |-> date]
FormDates == {"2024-01-01", ""}
Forms == {Form(a, s, d) : a \in {0, 1000}, s \in {"", "Acme"}, d \in FormDates}
NoForm == Form(0, "", "")
\* the form a Scanner starts with: the date is the day it is mounted
InitialForm == Form(0, "", "2024-01-01")

\* the insight text: '' at first, then what a call gave for the entries `of`
\* it was made with, or the static text of the catch clause
InsightText(kind, of) == [kind |-> kind, of |-> of]
NoText == InsightText("initial", <<>>)

Event(handler, outcome, draft) ==
  [handler |-> handler, outcome |-> outcome, form |-> draft]
NoEvent == Event("none", "none", NoForm)

Init ==
  /\ localStorage = <<>>
  /\ download = <<>>
  /\ exportedAt = <<>>
  /\ last = NoCall
  /\ entries = <<>>
  /\ activeView = "dashboard"
  /\ phase = "constructed"
  /\ readers = {}
  /\ uuidCount = 0
  /\ event = NoEvent
  /\ insights = NoText
  /\ loading = FALSE
  /\ requests = <<>>
  /\ form = InitialForm
  /\ scanning = FALSE
  /\ extractions = <<>>
  /\ ledger = <<>>
  /\ report = <<>>

SaveEntry ==
  \E e \in Entries :
    /\ Len(getEntries(localStorage)) < MaxStore
    /\ saveEntry(e)
    /\ UNCHANGED <<appVars, viewVars>>
DeleteEntry == \E id \in Ids : deleteEntry(id) /\ UNCHANGED <<appVars, viewVars>>
ImportData == \E f \in Files : importData(f) /\ UNCHANGED <<appVars, viewVars>>
ClearAll == clearAll /\ UNCHANGED <<appVars, viewVars>>

Next == SaveEntry \/ DeleteEntry \/ ImportData \/ ClearAll
Spec == Init /\ [][Next]_vars

(***************************************************************************)
(* ExportSpec: the service with exportData, and the exported file among    *)
(* the files that can be imported.                                         *)
(***************************************************************************)
ExportEntries ==
  { FinancialEntry(UUIDs[1], "2023-01-01", 1000, "Acme"),
    FinancialEntry(ForeignId, "2024-01-01", 1000, "Acme") }
ExportFiles ==
  { InvalidText, NonArrayText,
    ArrayText(<<NullElement>>, FALSE),
    ArrayText(<<FinancialEntry(UUIDs[1], "2023-01-01", 1000, "Acme"),
                FinancialEntry(ForeignId, "2024-01-01", 1000, "Acme")>>, TRUE) }

ExpSaveEntry ==
  \E e \in ExportEntries :
    /\ Len(getEntries(localStorage)) < MaxStore
    /\ saveEntry(e)
    /\ UNCHANGED <<appVars, viewVars>>
ExpDeleteEntry == \E id \in Ids : deleteEntry(id) /\ UNCHANGED <<appVars, viewVars>>
ExpImportFile == \E f \in ExportFiles : importData(f) /\ UNCHANGED <<appVars, viewVars>>
ExpImportDownload ==
  /\ download # <<>>
  /\ importData(download[1])
  /\ UNCHANGED <<appVars, viewVars>>
ExpExportData == exportData /\ UNCHANGED <<appVars, viewVars>>
ExpClearAll == clearAll /\ UNCHANGED <<appVars, viewVars>>

ExportNext ==
  \/ ExpSaveEntry \/ ExpDeleteEntry \/ ExpImportFile
  \/ ExpImportDownload \/ ExpExportData \/ ExpClearAll
ExportSpec == Init /\ [][ExportNext]_vars

(***************************************************************************)
(* AppSpec: the application.                                               *)
(***************************************************************************)
Views == {"dashboard", "history", "add", "insights"}

\* Dashboard, History and Insights read fields of every entry while they
\* render, which throws on a null element; Scanner is not given the entries
renderThrows(view, shown) ==
  view \in {"dashboard", "history", "insights"}
    /\ \E x \in Range(shown) : x.kind = "null"

rendered(view, shown) ==
  IF renderThrows(view, shown) THEN "crashed" ELSE "mounted"

\* the files the user picks in the import dialog
AppFiles ==
  { NonArrayText,
    ArrayText(<<NullElement>>, FALSE),
    ArrayText(<<ObjectElement>>, FALSE),
    ArrayText(<<FinancialEntry(ForeignId, "2023-01-01", 1000, "Acme"),
                FinancialEntry(ForeignId, "2024-01-01", 1000, "Acme")>>, TRUE) }

\* handleSubmit's test of the form
handleSubmitRejects(draft) == draft.amount = 0 \/ draft.source = ""

\* handleSubmit's newEntry
newEntry(draft, uuid) ==
  FinancialEntry(uuid, draft.date, draft.amount, draft.source)

\* a variant that keeps the entries the App already holds
refreshDataStale(item) == entries

\* refreshData's argument to setEntries
refreshData(item) == getEntries(item)

\* the page is loaded again: the App is constructed anew over the same item
Reload ==
  /\ entries' = <<>>
  /\ activeView' = "dashboard"
  /\ phase' = "constructed"
  /\ readers' = {}
  /\ event' = Event("reload", "none", NoForm)
  /\ UNCHANGED <<storeVars, uuidCount, viewVars>>

\* useEffect(() => refreshData(), [])
Mount ==
  /\ phase = "constructed"
  /\ entries' = refreshData(localStorage)
  /\ phase' = rendered(activeView, entries')
  /\ event' = Event("mount", "none", NoForm)
  /\ UNCHANGED <<storeVars, activeView, readers, uuidCount, viewVars>>

\* Layout's navigation
onViewChange(view) ==
  /\ phase = "mounted"
  /\ view # activeView
  /\ activeView' = view
  /\ phase' = rendered(view, entries)
  /\ event' = Event("onViewChange", "none", NoForm)
  /\ UNCHANGED <<storeVars, entries, readers, uuidCount>>

OnViewChange == \E view \in Views : onViewChange(view) /\ UNCHANGED viewVars

\* Scanner's handleSubmit, and App's handleAddEntry that it calls
handleSubmit(draft) ==
  /\ phase = "mounted"
  /\ activeView = "add"
  /\ IF handleSubmitRejects(draft)
     THEN /\ event' = Event("handleSubmit", "alert", draft)
          /\ UNCHANGED <<storeVars, entries, activeView, phase, uuidCount>>
     ELSE /\ uuidCount < MaxCreated
          /\ Len(getEntries(localStorage)) < MaxStore
          /\ uuidCount' = uuidCount + 1
          /\ saveEntry(newEntry(draft, UUIDs[uuidCount + 1]))
          /\ IF last'.ret = "TypeError"
             THEN /\ event' = Event("handleSubmit", "TypeError", draft)
                  /\ UNCHANGED <<entries, activeView, phase>>
             ELSE /\ entries' = refreshData(localStorage')
                  /\ activeView' = "dashboard"
                  /\ phase' = rendered(activeView', entries')
                  /\ event' = Event("handleSubmit", "added", draft)
  /\ UNCHANGED readers

HandleSubmit == \E draft \in Forms : handleSubmit(draft) /\ UNCHANGED viewVars

\* History's delete button, and App's handleDeleteEntry
HandleDeleteEntry ==
  \E i \in 1..Len(entries), confirmed \in BOOLEAN :
    /\ phase = "mounted"
    /\ activeView = "history"
    /\ IF ~confirmed
       THEN /\ event' = Event("handleDeleteEntry", "cancelled", NoForm)
            /\ UNCHANGED <<storeVars, entries, phase>>
       ELSE /\ deleteEntry(entries[i].id)
            /\ IF last'.ret = "TypeError"
               THEN /\ event' = Event("handleDeleteEntry", "TypeError", NoForm)
                    /\ UNCHANGED <<entries, phase>>
               ELSE /\ entries' = refreshData(localStorage')
                    /\ phase' = rendered(activeView, entries')
                    /\ event' = Event("handleDeleteEntry", "deleted", NoForm)
    /\ UNCHANGED <<activeView, readers, uuidCount, viewVars>>

\* Dashboard's file input: reader.readAsText(file)
ChooseFile ==
  \E f \in AppFiles :
    /\ phase = "mounted"
    /\ activeView = "dashboard"
    /\ Cardinality(readers) < MaxPending
    /\ readers' = readers \cup {f}
    /\ event' = Event("fileChosen", "none", NoForm)
    /\ UNCHANGED <<storeVars, entries, activeView, phase, uuidCount, viewVars>>

\* reader.onload: importData, and onDataRefresh when it returns true; the
\* setEntries of a removed tree does nothing
readerOnload(f) ==
  /\ phase # "constructed"
  /\ readers' = readers \ {f}
  /\ importData(f)
  /\ IF last'.ret = "true"
     THEN /\ event' = Event("readerOnload", "imported", NoForm)
          /\ IF phase = "mounted"
             THEN /\ entries' = refreshData(localStorage')
                  /\ phase' = rendered(activeView, entries')
             ELSE UNCHANGED <<entries, phase>>
     ELSE /\ event' = Event("readerOnload", "rejected", NoForm)
          /\ UNCHANGED <<entries, phase>>
  /\ UNCHANGED <<activeView, uuidCount>>

ReaderOnload == \E f \in readers : readerOnload(f) /\ UNCHANGED viewVars

AppNext ==
  \/ Reload \/ Mount \/ OnViewChange \/ HandleSubmit
  \/ HandleDeleteEntry \/ ChooseFile \/ ReaderOnload
AppSpec == Init /\ [][AppNext]_vars

(***************************************************************************)
(* The application with the Insights and the Scanner views.  A             *)
(* view's state exists while the view is shown; a promise that settles     *)
(* after its view was removed sets the state of nothing.                   *)
(***************************************************************************)
Remove(s, i) == SubSeq(s, 1, i - 1) \o SubSeq(s, i + 1, Len(s))

insightsShown == phase = "mounted" /\ activeView = "insights"
scannerShown == phase = "mounted" /\ activeView = "add"

\* what ai.models.generateContent does with a request for insights: it
\* answers with a text, answers without one, or rejects
Responses == {"text", "empty", "error"}

\* getFinancialInsights: the promise it returns.  Reading a field of a null
\* element throws inside the async function, which rejects the promise.
getFinancialInsights(shown, response) ==
  IF shown = <<>>
  THEN [rejected |-> FALSE, text |-> InsightText("addSome", <<>>)]
  ELSE IF response = "error" \/ \E x \in Range(shown) : x.kind = "null"
  THEN [rejected |-> TRUE, text |-> NoText]
  ELSE IF response = "empty"
  THEN [rejected |-> FALSE, text |-> InsightText("none", shown)]
  ELSE [rejected |-> FALSE, text |-> InsightText("narrative", shown)]

\* the text of the catch clause
Fallback == InsightText("fallback", <<>>)

\* a variant without the catch clause: a rejection leaves the text
fetchInsightsSettledNoCatch(result) ==
  [insights |-> IF result.rejected THEN insights ELSE result.text,
   loading |-> FALSE]

\* fetchInsights after its await: setInsights in the try or in the catch
\* clause, setLoading(false) in the finally clause
fetchInsightsSettled(result) ==
  [insights |-> IF result.rejected THEN Fallback ELSE result.text,
   loading |-> FALSE]

\* fetchInsights up to its await
fetchInsights(shown) ==
  IF Len(shown) = 0
  THEN UNCHANGED insightsVars
  ELSE /\ Len(requests) < MaxInFlight
       /\ loading' = TRUE
       /\ requests' = Append(requests, shown)
       /\ UNCHANGED insights

\* Insights after a step of the App: its state is gone when it is not
\* shown, and its effect runs when it is mounted or handed a new array
insightsRendered(effectRuns) ==
  IF ~insightsShown'
  THEN insights' = NoText /\ loading' = FALSE /\ requests' = <<>>
  ELSE IF effectRuns THEN fetchInsights(entries')
  ELSE UNCHANGED insightsVars

\* Scanner after a step of the App
scannerRendered ==
  IF scannerShown /\ scannerShown'
  THEN UNCHANGED scannerVars
  ELSE form' = InitialForm /\ scanning' = FALSE /\ extractions' = <<>>

ViewChange ==
  \E view \in Views :
    /\ onViewChange(view)
    /\ insightsRendered(TRUE)
    /\ scannerRendered
    /\ UNCHANGED analyticsVars

ViewReaderOnload ==
  \E f \in readers :
    /\ readerOnload(f)
    /\ insightsRendered(event'.outcome = "imported")
    /\ scannerRendered
    /\ UNCHANGED analyticsVars

\* a call of getFinancialInsights settles and fetchInsights resumes
FetchInsightsSettles ==
  \E i \in 1..Len(requests), response \in Responses :
    LET result == getFinancialInsights(requests[i], response)
        after == fetchInsightsSettled(result)
    IN /\ requests' = Remove(requests, i)
       /\ insights' = after.insights
       /\ loading' = after.loading
       /\ event' = Event("fetchInsights",
                         IF result.rejected THEN "rejected" ELSE "resolved",
                         NoForm)
       /\ UNCHANGED <<storeVars, entries, activeView, phase, readers,
                      uuidCount, scannerVars, analyticsVars>>

\* the object an extraction gives: the properties it has, and their values
Fields(has, amount, source, date) ==
  [has |-> has, amount |-> amount, source |-> source, date |-> date]
NoFields == Fields({}, 0, "", "")

\* what ai.models.generateContent does with an uploaded document: it
\* rejects (a network error), or it answers with no text, with a text that
\* is no JSON, or with the JSON text of an object
NetworkError == [rejected |-> TRUE, syntax |-> "none", object |-> NoFields]
ResponseText(syntax, object) ==
  [rejected |-> FALSE, syntax |-> syntax, object |-> object]
AIResponses ==
  { NetworkError,
    ResponseText("empty", NoFields),
    ResponseText("invalid", NoFields),
    ResponseText("valid", Fields({"source"}, 0, "Acme", "")),
    ResponseText("valid", Fields({"amount", "source", "date"},
                                 1000, "Acme", "2023-01-01")) }

\* extractSalaryFromImage: the await of generateContent stands before the
\* try block, which holds JSON.parse(response.text || "{}") alone
extractSalaryFromImage(response) ==
  IF response.rejected THEN [threw |-> TRUE, extracted |-> NoFields]
  ELSE IF response.syntax = "valid"
  THEN [threw |-> FALSE, extracted |-> response.object]
  ELSE [threw |-> FALSE, extracted |-> NoFields]

\* setForm(prev => ({...prev, ...extracted, category: 'Salary'}))
mergeExtracted(prev, extracted) ==
  Form(IF "amount" \in extracted.has THEN extracted.amount ELSE prev.amount,
       IF "source" \in extracted.has THEN extracted.source ELSE prev.source,
       IF "date" \in extracted.has THEN extracted.date ELSE prev.date)

\* Scanner's file input: reader.readAsDataURL(file)
HandleFileUpload ==
  /\ scannerShown
  /\ Len(extractions) < MaxInFlight
  /\ extractions' = Append(extractions, "reading")
  /\ event' = Event("handleFileUpload", "reading", form)
  /\ UNCHANGED <<storeVars, entries, activeView, phase, readers, uuidCount,
                 form, scanning, insightsVars, analyticsVars>>

\* reader.onloadend up to its await
ReaderOnloadend ==
  \E i \in 1..Len(extractions) :
    /\ extractions[i] = "reading"
    /\ extractions' = [extractions EXCEPT ![i] = "extracting"]
    /\ scanning' = TRUE
    /\ event' = Event("onloadend", "extracting", form)
    /\ UNCHANGED <<storeVars, entries, activeView, phase, readers, uuidCount,
                   form, insightsVars, analyticsVars>>

\* reader.onloadend after its await, as far as the Scanner's state goes
onloadendResumes(i, response) ==
  LET result == extractSalaryFromImage(response)
  IN /\ extractions' = Remove(extractions, i)
     /\ scanning' = FALSE
     /\ IF result.threw
        THEN /\ form' = form
             /\ event' = Event("onloadend", "Extraction failed", form)
        ELSE /\ form' = mergeExtracted(form, result.extracted)
             /\ event' = Event("onloadend", "merged", form')

\* a variant that hands the merged form on to onEntryAdded
ExtractionSettlesAndSaves ==
  \E i \in 1..Len(extractions), response \in AIResponses :
    /\ extractions[i] = "extracting"
    /\ onloadendResumes(i, response)
    /\ saveEntry(newEntry(form', UUIDs[1]))
    /\ UNCHANGED <<entries, activeView, phase, readers, uuidCount,
                   insightsVars, analyticsVars>>

\* a call of extractSalaryFromImage settles and reader.onloadend resumes
ExtractionSettles ==
  \E i \in 1..Len(extractions), response \in AIResponses :
    /\ extractions[i] = "extracting"
    /\ onloadendResumes(i, response)
    /\ UNCHANGED <<storeVars, entries, activeView, phase, readers, uuidCount,
                   insightsVars, analyticsVars>>

\* the onChange handlers of the form's inputs
EditForm ==
  \E edited \in {[form EXCEPT !.source = v] : v \in {"", "Acme"}}
                  \cup {[form EXCEPT !.amount = v] : v \in {0, 1000}}
                  \cup {[form EXCEPT !.date = v] : v \in FormDates} :
    /\ scannerShown
    /\ edited # form
    /\ form' = edited
    /\ event' = Event("onChange", "none", form')
    /\ UNCHANGED <<storeVars, entries, activeView, phase, readers, uuidCount,
                   scanning, extractions, insightsVars, analyticsVars>>

\* the form is submitted as it stands
SubmitForm ==
  /\ handleSubmit(form)
  /\ scannerRendered
  /\ UNCHANGED <<insightsVars, analyticsVars>>

\* InsightsSpec: the Insights view, and the imports that replace the
\* entries under it
InsightsNext ==
  \/ Mount \/ ViewChange \/ ChooseFile \/ ViewReaderOnload
  \/ FetchInsightsSettles
InsightsSpec == Init /\ [][InsightsNext]_vars

\* ScannerSpec: the Scanner view, its uploads and its form
ScannerNext ==
  \/ Mount \/ ViewChange
  \/ HandleFileUpload \/ ReaderOnloadend \/ ExtractionSettles
  \/ EditForm \/ SubmitForm
ScannerSpec == Init /\ [][ScannerNext]_vars

(***************************************************************************)
(* Numbers.  Sums of amounts are integers; a quotient is a fraction in     *)
(* lowest terms, NaN or an infinity, as IEEE division gives them (the      *)
(* rounding of a quotient to a double is left out).                        *)
(***************************************************************************)
RECURSIVE gcd(_, _)
gcd(a, b) == IF b = 0 THEN a ELSE gcd(b, a % b)
abs(a) == IF a < 0 THEN -a ELSE a
sign(a) == IF a < 0 THEN -1 ELSE IF a > 0 THEN 1 ELSE 0

Rat(n, d) ==
  LET g == gcd(abs(n), abs(d))
  IN [kind |-> "finite", n |-> sign(d) * (n \div g), d |-> abs(d) \div g]
Int2Num(a) == Rat(a, 1)
NaN == [kind |-> "NaN", n |-> 0, d |-> 1]
Infinity(sgn) == [kind |-> "Infinity", n |-> sgn, d |-> 1]
isFinite(x) == x.kind = "finite"
\* the truth value of a number: 0 and NaN are false
truthy(x) == ~(x.kind = "NaN" \/ (x.kind = "finite" /\ x.n = 0))

\* x + y
plus(x, y) ==
  IF x.kind = "NaN" \/ y.kind = "NaN" THEN NaN
  ELSE IF isFinite(x) /\ isFinite(y) THEN Rat(x.n * y.d + y.n * x.d, x.d * y.d)
  ELSE IF isFinite(x) THEN y
  ELSE IF isFinite(y) \/ x.n = y.n THEN x
  ELSE NaN
\* x - y
minus(x, y) == plus(x, [y EXCEPT !.n = -y.n])
\* x * y
times(x, y) ==
  IF x.kind = "NaN" \/ y.kind = "NaN" THEN NaN
  ELSE IF isFinite(x) /\ isFinite(y) THEN Rat(x.n * y.n, x.d * y.d)
  ELSE IF x.n = 0 \/ y.n = 0 THEN NaN
  ELSE Infinity(sign(x.n) * sign(y.n))
\* x / y, the divisor 0 being +0
divide(x, y) ==
  IF x.kind = "NaN" \/ y.kind = "NaN" THEN NaN
  ELSE IF isFinite(x) /\ isFinite(y)
  THEN IF y.n # 0 THEN Rat(x.n * y.d, x.d * y.n)
       ELSE IF x.n = 0 THEN NaN ELSE Infinity(sign(x.n))
  ELSE IF isFinite(x) THEN Int2Num(0)
  ELSE IF isFinite(y) THEN Infinity(sign(x.n) * (IF y.n < 0 THEN -1 ELSE 1))
  ELSE NaN

(***************************************************************************)
(* The entries the analytics read.  An optional number is <<>> when the    *)
(* entry has no such property and <<v>> when it has.                       *)
(***************************************************************************)
LineItem(name, amount) == [name |-> name, amount |-> amount]
Disbursement(bankCode, bankName, accountNo, amount) ==
  [bankCode |-> bankCode, bankName |-> bankName, accountNo |-> accountNo,
   amount |-> amount]
PayEntry(date, amount, gross, tax, deductions, hours, items, paid) ==
  [date |-> date, amount |-> amount, grossAmount |-> gross, tax |-> tax,
   deductions |-> deductions, workedHours |-> hours,
   lineItems |-> items, disbursements |-> paid]

\* a payslip with its gross, one without gross but with tax and deductions
\* (as an import holds), one as the form saves it when gross, tax and
\* deductions were left blank, one with nothing paid and no hours, and one
\* of a fortnight later whose tax is a refund
PayEntries ==
  { PayEntry("2023-01-01", 800, <<1000>>, <<150>>, <<>>, <<10>>,
             <<LineItem("Base", 1000)>>,
             <<Disbursement("B1", "First Bank", "0001", 800)>>),
    PayEntry("2024-01-01", 900, <<>>, <<100>>, <<50>>, <<>>, <<>>,
             <<Disbursement("B2", "Second Bank", "0002", 900)>>),
    PayEntry("2024-06-01", 500, <<0>>, <<0>>, <<0>>, <<10>>, <<>>, <<>>),
    PayEntry("2023-01-01", 0, <<>>, <<>>, <<>>, <<0>>, <<>>, <<>>),
    PayEntry("2024-01-16", 1000, <<1200>>, <<-50>>, <<250>>, <<>>, <<>>, <<>>) }

\* x || d for an optional number x: d when x is absent or 0
orElse(x, d) == IF x = <<>> \/ x[1] = 0 THEN d ELSE x[1]

\* s.reduce((acc, x) => acc + x, 0) over integers and over quotients
RECURSIVE Sum(_)
Sum(s) == IF s = <<>> THEN 0 ELSE Sum(SubSeq(s, 1, Len(s) - 1)) + s[Len(s)]
RECURSIVE SumNum(_)
SumNum(s) ==
  IF s = <<>> THEN Int2Num(0)
  ELSE plus(SumNum(SubSeq(s, 1, Len(s) - 1)), s[Len(s)])
\* s.map(f)
Map(s, f(_)) == [i \in 1..Len(s) |-> f(s[i])]

\* [...entries].sort((a, b) => time(a) - time(b)): the stable sort, the
\* dates of PayEntries being dates
RECURSIVE sortAscending(_)
sortAscending(s) ==
  IF s = <<>> THEN <<>>
  ELSE LET t == sortAscending(SubSeq(s, 1, Len(s) - 1))
           x == s[Len(s)]
           k == Cardinality({i \in 1..Len(t) :
                               getTime(t[i].date).t <= getTime(x.date).t})
       IN SubSeq(t, 1, k) \o <<x>> \o SubSeq(t, k + 1, Len(t))

\* s.slice(0, 3) and s.slice(-3)
first3(s) == SubSeq(s, 1, IF Len(s) < 3 THEN Len(s) ELSE 3)
last3(s) == SubSeq(s, IF Len(s) < 3 THEN 1 ELSE Len(s) - 2, Len(s))

(***************************************************************************)
(* Dashboard: the figures of its versions.                                 *)
(***************************************************************************)
\* e.grossAmount || e.amount + (e.tax || 0) + (e.deductions || 0)
grossOrReconstructed(e) ==
  orElse(e.grossAmount, e.amount + orElse(e.tax, 0) + orElse(e.deductions, 0))
\* e.grossAmount || e.amount
grossOrNet(e) == orElse(e.grossAmount, e.amount)
\* e.grossAmount || 0
grossOrZero(e) == orElse(e.grossAmount, 0)

totalNet(shown) == Sum(Map(shown, LAMBDA e : e.amount))
totalGross(shown) == Sum(Map(shown, grossOrReconstructed))
totalDeductions(shown) == totalGross(shown) - totalNet(shown)

\* avgFirst3 and avgLast3: the average of a window, 0 for the empty one
windowAverage(window) ==
  IF Len(window) # 0
  THEN divide(Int2Num(Sum(Map(window, grossOrNet))), Int2Num(Len(window)))
  ELSE Int2Num(0)

momentum(shown) ==
  LET sorted == sortAscending(shown)
      avgFirst3 == windowAverage(first3(sorted))
      avgLast3 == windowAverage(last3(sorted))
  IN IF truthy(avgFirst3)
     THEN times(divide(minus(avgLast3, avgFirst3), avgFirst3), Int2Num(100))
     ELSE Int2Num(0)

\* a variant without the test of totalGross
keepRateUnguarded(shown) ==
  times(divide(Int2Num(totalNet(shown)), Int2Num(totalGross(shown))),
        Int2Num(100))

keepRate(shown) ==
  IF totalGross(shown) # 0
  THEN times(divide(Int2Num(totalNet(shown)), Int2Num(totalGross(shown))),
             Int2Num(100))
  ELSE Int2Num(0)

entriesWithHours(shown) ==
  SelectSeq(shown, LAMBDA e : orElse(e.workedHours, 0) > 0)

effectiveHourly(shown) ==
  LET worked == entriesWithHours(shown)
      hourly(e) == divide(Int2Num(grossOrNet(e)),
                          Int2Num(orElse(e.workedHours, 1)))
  IN IF Len(worked) # 0
     THEN divide(SumNum(Map(worked, hourly)), Int2Num(Len(worked)))
     ELSE Int2Num(0)

\* stats of the first version
stats(shown) ==
  [totalNet |-> totalNet(shown), totalGross |-> totalGross(shown),
   totalDeductions |-> totalDeductions(shown), momentum |-> momentum(shown),
   keepRate |-> keepRate(shown), effectiveHourly |-> effectiveHourly(shown)]

\* stats of the second version
statsSecondVersion(shown) ==
  [totalNet |-> Sum(Map(shown, LAMBDA e : e.amount)),
   totalGross |-> Sum(Map(shown, grossOrZero)),
   totalDeductions |->
     Sum(Map(shown, LAMBDA e : orElse(e.deductions, 0) + orElse(e.tax, 0)))]

\* stats of the version with time frames (its totalBenefits left out)
statsTimeframeVersion(shown) ==
  [totalNet |-> Sum(Map(shown, LAMBDA e : e.amount)),
   totalGross |-> Sum(Map(shown, grossOrZero)),
   totalDeductions |->
     Sum(Map(shown, LAMBDA e : orElse(e.deductions, 0) + orElse(e.tax, 0)))]

\* stats of the version with the six-month chart
statsSixMonthVersion(shown) ==
  LET net == Sum(Map(shown, LAMBDA e : e.amount))
      gross == Sum(Map(shown, grossOrReconstructed))
  IN [totalNet |-> net, totalGross |-> gross, totalDeductions |-> gross - net]

\* toLocaleDateString('en-US', {month: 'short', year: '2-digit'}) and
\* getFullYear().toString() of new Date(d)
monthLabel(d) ==
  CASE d = "2023-01-01" -> "Jan 23"
    [] d = "2023-06-01" -> "Jun 23"
    [] d \in {"2024-01-01", "2024-01-16"} -> "Jan 24"
    [] d = "2024-06-01" -> "Jun 24"
    [] d = "2025-01-01" -> "Jan 25"
    [] OTHER -> "Invalid Date"
yearLabel(d) ==
  CASE d \in {"2023-01-01", "2023-06-01"} -> "2023"
    [] d \in {"2024-01-01", "2024-01-16", "2024-06-01"} -> "2024"
    [] d = "2025-01-01" -> "2025"
    [] OTHER -> "NaN"

\* s.slice(-n)
sliceLast(s, n) == SubSeq(s, IF Len(s) < n THEN 1 ELSE Len(s) - n + 1, Len(s))

\* a sort by total, largest first: (a, b) => b.total - a.total
RECURSIVE sortByTotal(_)
sortByTotal(s) ==
  IF s = <<>> THEN <<>>
  ELSE LET t == sortByTotal(SubSeq(s, 1, Len(s) - 1))
           x == s[Len(s)]
           k == Cardinality({i \in 1..Len(t) : t[i].total >= x.total})
       IN SubSeq(t, 1, k) \o <<x>> \o SubSeq(t, k + 1, Len(t))

\* chartData: the months in the order they are first met, each with its
\* sums (the sums per bank account are left out)
RECURSIVE chartMonths(_)
chartMonths(sorted) ==
  IF sorted = <<>> THEN <<>>
  ELSE LET months == chartMonths(SubSeq(sorted, 1, Len(sorted) - 1))
           e == sorted[Len(sorted)]
           m == monthLabel(e.date)
       IN IF \E i \in 1..Len(months) : months[i].month = m
          THEN [i \in 1..Len(months) |->
                  IF months[i].month = m
                  THEN [month |-> m,
                        gross |-> months[i].gross + grossOrReconstructed(e),
                        net |-> months[i].net + e.amount]
                  ELSE months[i]]
          ELSE Append(months, [month |-> m, gross |-> grossOrReconstructed(e),
                               net |-> e.amount])
chartData(shown) == sliceLast(chartMonths(sortAscending(shown)), 12)

\* the disbursements of all entries, in the order of the entries
RECURSIVE allDisbursements(_)
allDisbursements(shown) ==
  IF shown = <<>> THEN <<>>
  ELSE allDisbursements(SubSeq(shown, 1, Len(shown) - 1))
         \o shown[Len(shown)].disbursements

\* the property name `${d.bankName}-${d.accountNo}` a disbursement is
\* totalled under
disbursementId(bankName, accountNo) == bankName \o "-" \o accountNo

\* disbursementTotals, under the sortConfig the view starts with
RECURSIVE accountTotals(_)
accountTotals(ds) ==
  IF ds = <<>> THEN <<>>
  ELSE LET totals == accountTotals(SubSeq(ds, 1, Len(ds) - 1))
           d == ds[Len(ds)]
           same(t) == disbursementId(t.name, t.account)
                        = disbursementId(d.bankName, d.accountNo)
       IN IF \E i \in 1..Len(totals) : same(totals[i])
          THEN [i \in 1..Len(totals) |->
                  IF same(totals[i])
                  THEN [totals[i] EXCEPT !.total = @ + d.amount]
                  ELSE totals[i]]
          ELSE Append(totals, [name |-> d.bankName, account |-> d.accountNo,
                               total |-> d.amount])
disbursementTotals(shown) == sortByTotal(accountTotals(allDisbursements(shown)))

(***************************************************************************)
(* Insights: the figures of its versions, and of getFinancialInsights.     *)
(***************************************************************************)
\* the time frames of the view: the last twelve months (which it starts
\* with), the year to date, everything, and a year
Timeframes == {"1Y", "YTD", "ALL", "2023"}
\* the day of the render, and the day twelve months before it
Today == "2024-06-01"
twelveMonthsAgo == "2023-06-01"

filteredEntries(shown, timeframe) ==
  SelectSeq(shown, LAMBDA e :
    IF timeframe = "1Y"
    THEN ~getTime(e.date).nan /\ getTime(e.date).t >= getTime(twelveMonthsAgo).t
    ELSE IF timeframe = "YTD" THEN yearLabel(e.date) = yearLabel(Today)
    ELSE IF timeframe # "ALL" THEN yearLabel(e.date) = timeframe
    ELSE TRUE)

compositionData(filtered) ==
  SelectSeq(
    << [name |-> "Net Take-Home",
        value |-> Sum(Map(filtered, LAMBDA e : e.amount))],
       [name |-> "Tax Withheld",
        value |-> Sum(Map(filtered, LAMBDA e : orElse(e.tax, 0)))],
       [name |-> "Other Deductions",
        value |-> Sum(Map(filtered, LAMBDA e : orElse(e.deductions, 0)))] >>,
    LAMBDA d : d.value > 0)

\* a yearly summary whose growth is taken relative to the bucket's own gross
yearlySummaryOfOwnGross(shown) ==
  LET ofYear(y) == SelectSeq(shown, LAMBDA e : yearLabel(e.date) = y)
      sortedYears ==
        SelectSeq(<<"2023", "2024">>, LAMBDA y : ofYear(y) # <<>>)
      gross(y) == Sum(Map(ofYear(y), grossOrZero))
  IN [idx \in 1..Len(sortedYears) |->
        [year |-> sortedYears[idx],
         gross |-> gross(sortedYears[idx]),
         net |-> Sum(Map(ofYear(sortedYears[idx]), LAMBDA e : e.amount)),
         growth |->
           IF idx > 1
           THEN times(divide(Int2Num(gross(sortedYears[idx])
                                       - gross(sortedYears[idx - 1])),
                             Int2Num(gross(sortedYears[idx]))),
                      Int2Num(100))
           ELSE Int2Num(0)]]

\* yearlySummary: Object.keys(years).sort() over the years of PayEntries
yearlySummary(shown) ==
  LET ofYear(y) == SelectSeq(shown, LAMBDA e : yearLabel(e.date) = y)
      sortedYears ==
        SelectSeq(<<"2023", "2024">>, LAMBDA y : ofYear(y) # <<>>)
      gross(y) == Sum(Map(ofYear(y), grossOrZero))
  IN [idx \in 1..Len(sortedYears) |->
        [year |-> sortedYears[idx],
         gross |-> gross(sortedYears[idx]),
         net |-> Sum(Map(ofYear(sortedYears[idx]), LAMBDA e : e.amount)),
         growth |->
           IF idx > 1
           THEN times(divide(Int2Num(gross(sortedYears[idx])
                                       - gross(sortedYears[idx - 1])),
                             Int2Num(gross(sortedYears[idx - 1]))),
                      Int2Num(100))
           ELSE Int2Num(0)]]

\* selectedItemName: '' until an entry has a line item, then the first of
\* allItemNames (the names of PayEntries' items being one)
selectedItemName(shown) ==
  IF \E i \in 1..Len(shown) : shown[i].lineItems # <<>> THEN "Base" ELSE ""

selectedItemHistory(name, filtered) ==
  IF name = "" THEN <<>>
  ELSE Map(sortAscending(filtered), LAMBDA e :
         [date |-> monthLabel(e.date),
          amount |->
            LET found == SelectSeq(e.lineItems, LAMBDA li : li.name = name)
            IN IF found = <<>> THEN 0 ELSE found[1].amount])

\* the property name `${d.bankCode}-${d.accountNo}` of disbursementStats
disbursementKey(bankCode, accountNo) == bankCode \o "-" \o accountNo

RECURSIVE channelTotals(_)
channelTotals(ds) ==
  IF ds = <<>> THEN <<>>
  ELSE LET totals == channelTotals(SubSeq(ds, 1, Len(ds) - 1))
           d == ds[Len(ds)]
           same(t) == disbursementKey(t.bankCode, t.accountNo)
                        = disbursementKey(d.bankCode, d.accountNo)
       IN IF \E i \in 1..Len(totals) : same(totals[i])
          THEN [i \in 1..Len(totals) |->
                  IF same(totals[i])
                  THEN [totals[i] EXCEPT !.total = @ + d.amount]
                  ELSE totals[i]]
          ELSE Append(totals, [bankName |-> d.bankName, bankCode |-> d.bankCode,
                               accountNo |-> d.accountNo, total |-> d.amount])
disbursementStats(shown) == sortByTotal(channelTotals(allDisbursements(shown)))

\* channelTotals of getFinancialInsights: the amounts per d.bankName, in the
\* order the names are first met
RECURSIVE bankChannelTotals(_)
bankChannelTotals(ds) ==
  IF ds = <<>> THEN <<>>
  ELSE LET totals == bankChannelTotals(SubSeq(ds, 1, Len(ds) - 1))
           d == ds[Len(ds)]
       IN IF \E i \in 1..Len(totals) : totals[i].bankName = d.bankName
          THEN [i \in 1..Len(totals) |->
                  IF totals[i].bankName = d.bankName
                  THEN [totals[i] EXCEPT !.total = @ + d.amount]
                  ELSE totals[i]]
          ELSE Append(totals, [bankName |-> d.bankName, total |-> d.amount])

\* x.toFixed(0): the digits of x rounded to an integer, "NaN", "Infinity"
toFixed0(x) ==
  IF isFinite(x)
  THEN Int2Num(sign(x.n) * ((2 * abs(x.n) + x.d) \div (2 * x.d)))
  ELSE x

\* retentionRate of the version with the plain text of insights
retentionRate(shown) ==
  IF Len(shown) > 0
  THEN toFixed0(times(divide(Int2Num(Sum(Map(shown, LAMBDA e : e.amount))),
                             Int2Num(Sum(Map(shown, grossOrNet)))),
                      Int2Num(100)))
  ELSE Int2Num(0)

\* analysis of the version with the projection: <<>> for null
analysis(shown) ==
  IF Len(shown) = 0 THEN <<>>
  ELSE
    LET sorted == sortAscending(shown)
        latest == sorted[Len(sorted)]
        first == sorted[1]
        worked == entriesWithHours(shown)
        hourly(e) == divide(Int2Num(grossOrZero(e)),
                            Int2Num(orElse(e.workedHours, 1)))
        \* milliseconds / (1000 * 60 * 60 * 24 * 30.44), in days / 30.44
        monthsDiff ==
          Rat((getTime(latest.date).t - getTime(first.date).t) * 100, 3044)
        avgMonthlyGross ==
          divide(Int2Num(Sum(Map(shown, grossOrNet))),
                 IF truthy(monthsDiff) THEN monthsDiff ELSE Int2Num(1))
    IN << [retentionRate |->
             times(divide(Int2Num(Sum(Map(shown, LAMBDA e : e.amount))),
                          Int2Num(Sum(Map(shown, grossOrNet)))),
                   Int2Num(100)),
           hourlyRate |->
             IF Len(worked) # 0
             THEN divide(SumNum(Map(worked, hourly)), Int2Num(Len(worked)))
             ELSE Int2Num(0),
           lifetimeProjection |->
             times(times(avgMonthlyGross, Int2Num(12)), Int2Num(35))] >>

\* avgHourly of getFinancialInsights
avgHourly(sorted) ==
  LET worked == entriesWithHours(sorted)
      hourly(e) == divide(Int2Num(grossOrZero(e)),
                          Int2Num(orElse(e.workedHours, 1)))
  IN divide(SumNum(Map(worked, hourly)),
            Int2Num(IF Len(worked) # 0 THEN Len(worked) ELSE 1))

(***************************************************************************)
(* AnalyticsSpec: the views compute their figures from the entries they    *)
(* are given, when they are first rendered, when the entries change and    *)
(* when the user picks a time frame.                                       *)
(***************************************************************************)
analytics(shown, timeframe) ==
  [timeframe |-> timeframe,
   stats |-> stats(shown),
   chartData |-> chartData(shown),
   disbursementTotals |-> disbursementTotals(shown),
   statsSecondVersion |-> statsSecondVersion(shown),
   statsTimeframeVersion |-> statsTimeframeVersion(shown),
   statsSixMonthVersion |-> statsSixMonthVersion(shown),
   compositionData |-> compositionData(filteredEntries(shown, timeframe)),
   yearlySummary |-> yearlySummary(shown),
   selectedItemHistory |->
     selectedItemHistory(selectedItemName(shown),
                         filteredEntries(shown, timeframe)),
   disbursementStats |-> disbursementStats(shown),
   retentionRate |-> retentionRate(shown),
   analysis |-> analysis(shown),
   avgHourly |-> avgHourly(sortAscending(shown))]

Render ==
  /\ report = <<>>
  /\ report' = <<analytics(ledger, "1Y")>>
  /\ UNCHANGED <<ledger, storeVars, appVars, insightsVars, scannerVars>>

EntriesChange ==
  \E e \in PayEntries :
    /\ report # <<>>
    /\ Len(ledger) < MaxLedger
    /\ ledger' = Append(ledger, e)
    /\ report' = <<analytics(ledger', report[1].timeframe)>>
    /\ UNCHANGED <<storeVars, appVars, insightsVars, scannerVars>>

SetTimeframe ==
  \E timeframe \in Timeframes :
    /\ report # <<>>
    /\ timeframe # report[1].timeframe
    /\ report' = <<analytics(ledger, timeframe)>>
    /\ UNCHANGED <<ledger, storeVars, appVars, insightsVars, scannerVars>>

AnalyticsNext == Render \/ EntriesChange \/ SetTimeframe
AnalyticsSpec == Init /\ [][AnalyticsNext]_vars

(***************************************************************************)
(* TimeframeSpec: the time frame of the Dashboard's monthly series and of  *)
(* the Insights view, over entries dated before, within and after the last *)
(* twelve months, and an entry whose date is not a date.                   *)
(***************************************************************************)
TimeframeDates == {"2023-01-01", "2024-01-01", "2024-06-01", "2025-01-01", ""}
DatedEntries ==
  { PayEntry(d, 100, <<>>, <<>>, <<>>, <<>>, <<>>, <<>>) : d \in TimeframeDates }

\* the entries chartData adds to a month: those its time frame does not
\* return on
chartDataEntries(shown, timeframe) ==
  SelectSeq(shown, LAMBDA e :
    IF timeframe = "1Y"
    THEN ~(~getTime(e.date).nan
             /\ getTime(e.date).t < getTime(twelveMonthsAgo).t)
    ELSE IF timeframe = "YTD" THEN ~(yearLabel(e.date) # yearLabel(Today))
    ELSE IF timeframe # "ALL" THEN ~(yearLabel(e.date) # timeframe)
    ELSE TRUE)

selection(shown, timeframe) ==
  [timeframe |-> timeframe,
   chartDataEntries |-> chartDataEntries(shown, timeframe),
   filteredEntries |-> filteredEntries(shown, timeframe)]

RenderSelection ==
  /\ report = <<>>
  /\ report' = <<selection(ledger, "1Y")>>
  /\ UNCHANGED <<ledger, storeVars, appVars, insightsVars, scannerVars>>

DatedEntriesChange ==
  \E e \in DatedEntries :
    /\ report # <<>>
    /\ Len(ledger) < MaxLedger
    /\ ledger' = Append(ledger, e)
    /\ report' = <<selection(ledger', report[1].timeframe)>>
    /\ UNCHANGED <<storeVars, appVars, insightsVars, scannerVars>>

SetSelectionTimeframe ==
  \E timeframe \in Timeframes :
    /\ report # <<>>
    /\ timeframe # report[1].timeframe
    /\ report' = <<selection(ledger, timeframe)>>
    /\ UNCHANGED <<ledger, storeVars, appVars, insightsVars, scannerVars>>

TimeframeNext == RenderSelection \/ DatedEntriesChange \/ SetSelectionTimeframe
TimeframeSpec == Init /\ [][TimeframeNext]_vars

(***************************************************************************)
(* RollupSpec: the totals per disbursement channel of the Dashboard, of    *)
(* the Insights view and of getFinancialInsights, over payslips paid into  *)
(* accounts that share a bank name, a bank code or an account number, or   *)
(* whose code and number hold a '-'.                                       *)
(***************************************************************************)
Disbursements ==
  { Disbursement("B1", "First Bank", "0001", 800),
    Disbursement("B1", "First Bank", "0002", 100),
    Disbursement("B1", "1st Bank", "0001", 50),
    Disbursement("B1-0", "First Bank", "001", 30),
    Disbursement("B1", "First Bank", "0-001", 20) }
PaidEntries ==
  { PayEntry("2024-01-01", d.amount, <<>>, <<>>, <<>>, <<>>, <<>>, <<d>>) :
      d \in Disbursements }

rollups(shown) ==
  [disbursementTotals |-> disbursementTotals(shown),
   disbursementStats |-> disbursementStats(shown),
   channelTotals |-> bankChannelTotals(allDisbursements(shown))]

RenderRollups ==
  /\ report = <<>>
  /\ report' = <<rollups(ledger)>>
  /\ UNCHANGED <<ledger, storeVars, appVars, insightsVars, scannerVars>>

PaidEntriesChange ==
  \E e \in PaidEntries :
    /\ report # <<>>
    /\ Len(ledger) < MaxLedger
    /\ ledger' = Append(ledger, e)
    /\ report' = <<rollups(ledger')>>
    /\ UNCHANGED <<storeVars, appVars, insightsVars, scannerVars>>

RollupNext == RenderRollups \/ PaidEntriesChange
RollupSpec == Init /\ [][RollupNext]_vars

(***************************************************************************)
(* CurrencySpec: the currency that History and the Dashboard format money  *)
(* with.  A code is the sequence of its characters; a missing code and the *)
(* empty string, both falsy, are the empty sequence.                       *)
(***************************************************************************)
USD == <<"U", "S", "D">>
Currencies ==
  { <<>>, <<"u", "s">>, <<"g", "b", "p">>, USD, <<"U", "S", "1">>,
    <<"e", "u", "r", "o">> }
MoneyEntries == { [amount |-> 100, currency |-> c] : c \in Currencies }

UpperCaseLetters ==
  { "A", "B", "C", "D", "E", "F", "G", "H", "I", "J", "K", "L", "M",
    "N", "O", "P", "Q", "R", "S", "T", "U", "V", "W", "X", "Y", "Z" }
\* String.prototype.toUpperCase on the characters of Currencies
toUpperCase(code) ==
  [i \in DOMAIN code |->
     CASE code[i] = "u" -> "U"
       [] code[i] = "s" -> "S"
       [] code[i] = "g" -> "G"
       [] code[i] = "b" -> "B"
       [] code[i] = "p" -> "P"
       [] code[i] = "e" -> "E"
       [] code[i] = "r" -> "R"
       [] code[i] = "o" -> "O"
       [] OTHER -> code[i]]
\* /^[A-Z]{3}$/.test(upper)
threeUpperCaseLetters(upper) ==
  Len(upper) = 3 /\ \A i \in 1..3 : upper[i] \in UpperCaseLetters

getSafeCurrency(code) ==
  IF code = <<>> \/ Len(code) # 3 THEN USD
  ELSE IF threeUpperCaseLetters(toUpperCase(code)) THEN toUpperCase(code)
  ELSE USD

\* new Intl.NumberFormat('en-US', {style: 'currency', currency}): a
\* RangeError unless the code is three letters of either case, which it
\* takes upper-cased
IntlNumberFormat(currency) ==
  IF threeUpperCaseLetters(toUpperCase(currency))
  THEN [threw |-> FALSE, currency |-> toUpperCase(currency)]
  ELSE [threw |-> TRUE, currency |-> <<>>]

\* formatCurrency of History, of an entry's code
historyFormatCurrency(currencyCode) ==
  LET formatted == IntlNumberFormat(getSafeCurrency(currencyCode))
  IN IF formatted.threw THEN IntlNumberFormat(USD) ELSE formatted

\* entries[0]?.currency || 'USD'
rawCurrency(shown) ==
  IF shown # <<>> /\ shown[1].currency # <<>> THEN shown[1].currency ELSE USD

\* formatCurrency of the Dashboard's first version
dashboardFormatCurrency(shown) == IntlNumberFormat(rawCurrency(shown))

\* formatCurrency of the Dashboard's version with a time frame
timeframeFormatCurrency(shown) ==
  LET currency ==
        IF Len(rawCurrency(shown)) # 3 THEN USD
        ELSE IF threeUpperCaseLetters(toUpperCase(rawCurrency(shown)))
        THEN toUpperCase(rawCurrency(shown))
        ELSE USD
      formatted == IntlNumberFormat(currency)
  IN IF formatted.threw THEN IntlNumberFormat(USD) ELSE formatted

\* what the views of a non-empty collection format its money with
money(shown) ==
  [history |-> [i \in 1..Len(shown) |-> historyFormatCurrency(shown[i].currency)],
   dashboard |->
     IF shown = <<>> THEN <<>> ELSE <<dashboardFormatCurrency(shown)>>,
   dashboardTimeframe |->
     IF shown = <<>> THEN <<>> ELSE <<timeframeFormatCurrency(shown)>>]

RenderMoney ==
  /\ report = <<>>
  /\ report' = <<money(ledger)>>
  /\ UNCHANGED <<ledger, storeVars, appVars, insightsVars, scannerVars>>

MoneyEntriesChange ==
  \E e \in MoneyEntries :
    /\ report # <<>>
    /\ Len(ledger) < MaxLedger
    /\ ledger' = Append(ledger, e)
    /\ report' = <<money(ledger')>>
    /\ UNCHANGED <<storeVars, appVars, insightsVars, scannerVars>>

CurrencyNext == RenderMoney \/ MoneyEntriesChange
CurrencySpec == Init /\ [][CurrencyNext]_vars

(***************************************************************************)
(* CommitSpec: the numbers handleSubmit commits.  A field of the form is   *)
(* the number an input's onChange has put there or whatever value the      *)
(* parsed extraction result held under its name; the committed entry is    *)
(* saved as JSON, read back and totalled by the Dashboard.                 *)
(***************************************************************************)
JSnumber(x) == [type |-> "number", v |-> x, text |-> ""]
JSstring(text) == [type |-> "string", v |-> NaN, text |-> text]
JSnull == [type |-> "null", v |-> NaN, text |-> ""]

\* Number(value)
Number(value) ==
  CASE value.type = "number" -> value.v
    [] value.type = "null" -> Int2Num(0)
    [] value.text = "" -> Int2Num(0)
    [] value.text = "1200" -> Int2Num(1200)
    [] OTHER -> NaN
\* the truth value of a value
ToBoolean(value) ==
  CASE value.type = "number" -> truthy(value.v)
    [] value.type = "null" -> FALSE
    [] OTHER -> value.text # ""
\* a || b
logicalOr(a, b) == IF ToBoolean(a) THEN a ELSE b

\* the fields an input's onChange leaves: Number(e.target.value) of a number
\* input, and the text of the source
TypedDrafts ==
  [amount : {JSnumber(Int2Num(0)), JSnumber(Int2Num(1200))},
   grossAmount : {JSnumber(Int2Num(0))},
   tax : {JSnumber(Int2Num(0))},
   deductions : {JSnumber(Int2Num(0))},
   source : {"", "Acme"}]
\* fields of a parsed extraction result, as the response text holds them
ExtractedNumbers ==
  { <<>>,
    <<[field |-> "amount", value |-> JSstring("1,200")]>>,
    <<[field |-> "grossAmount", value |-> JSstring("n/a")]>>,
    <<[field |-> "amount", value |-> JSstring("1200")],
      [field |-> "grossAmount", value |-> JSnull]>> }

\* {...prev, ...extracted}
spread(prev, extracted) ==
  [f \in DOMAIN prev |->
     IF \E i \in 1..Len(extracted) : extracted[i].field = f
     THEN (CHOOSE x \in Range(extracted) : x.field = f).value
     ELSE prev[f]]

\* !form.amount || !form.source
submitRejects(draft) == ~ToBoolean(draft.amount) \/ draft.source = ""

\* the numeric fields of newEntry that the Dashboard totals
committedNumbers(draft) ==
  [amount |-> Number(draft.amount),
   grossAmount |-> Number(logicalOr(draft.grossAmount, JSnumber(Int2Num(0)))),
   tax |-> Number(logicalOr(draft.tax, JSnumber(Int2Num(0)))),
   deductions |-> Number(logicalOr(draft.deductions, JSnumber(Int2Num(0))))]

\* JSON.parse(JSON.stringify(entry)): a number that is not finite is null
revived(numbers) ==
  [f \in DOMAIN numbers |->
     IF isFinite(numbers[f]) THEN JSnumber(numbers[f]) ELSE JSnull]

\* the Dashboard's stats over entries read back from the store
statsOfRevived(shown) ==
  LET gross(e) ==
        IF ToBoolean(e.grossAmount) THEN Number(e.grossAmount)
        ELSE plus(plus(Number(e.amount),
                       Number(logicalOr(e.tax, JSnumber(Int2Num(0))))),
                  Number(logicalOr(e.deductions, JSnumber(Int2Num(0)))))
      net == SumNum(Map(shown, LAMBDA e : Number(e.amount)))
      all == SumNum(Map(shown, gross))
  IN [totalNet |-> net, totalGross |-> all, totalDeductions |-> minus(all, net)]

\* handleSubmit of a form that was typed and, possibly, merged with an
\* extraction result; handleAddEntry saves the entry and the Dashboard is
\* shown with the entries read back
SubmitDraft ==
  \E typed \in TypedDrafts, extracted \in ExtractedNumbers :
    LET draft == spread(typed, extracted)
    IN IF submitRejects(draft)
       THEN /\ report' = <<[alert |-> TRUE, newEntry |-> <<>>,
                             stats |-> statsOfRevived(ledger)]>>
            /\ UNCHANGED <<ledger, storeVars, appVars, insightsVars,
                           scannerVars>>
       ELSE /\ Len(ledger) < MaxLedger
            /\ ledger' = Append(ledger, revived(committedNumbers(draft)))
            /\ report' = <<[alert |-> FALSE,
                             newEntry |-> <<committedNumbers(draft)>>,
                             stats |-> statsOfRevived(ledger')]>>
            /\ UNCHANGED <<storeVars, appVars, insightsVars, scannerVars>>

CommitNext == SubmitDraft
CommitSpec == Init /\ [][CommitNext]_vars

(***************************************************************************)
(* Properties of the record store.                                         *)
(***************************************************************************)
stored == getEntries(localStorage)
validDate(x) == ~getTime(x.date).nan
time(x) == getTime(x.date).t
storedIds(s) == {x.id : x \in {y \in Range(s) : y.kind = "entry"}}

\* of any two elements that have a date, the more recent comes first
mostRecentFirst(s) ==
  \A i, j \in 1..Len(s) :
    (i < j /\ validDate(s[i]) /\ validDate(s[j])) => time(s[i]) >= time(s[j])

\* e comes after every element of s that has its date
lastOfItsDate(s, e) ==
  \A i \in 1..Len(s) :
    (validDate(s[i]) /\ time(s[i]) = time(e) /\ s[i] # e)
      => \E j \in (i + 1)..Len(s) : s[j] = e

\* C1: after any sequence of saveEntry, deleteEntry, importData and clearAll,
\* getEntries() is ordered most-recent date first, and an entry just saved
\* comes after the stored entries of the same date (insertion order).
C1_MostRecentFirst ==
  /\ mostRecentFirst(stored)
  /\ (last.op = "saveEntry" /\ last.ret = "ok" /\ validDate(last.entry))
       => lastOfItsDate(stored, last.entry)

\* C3: saveEntry(e) succeeds in every reachable state of the store, and
\* afterwards e is a member of getEntries().
C3_SaveAlwaysSucceeds ==
  last.op = "saveEntry" =>
    (last.ret = "ok" /\ last.entry \in Range(stored))

\* C4: deleteEntry(id) with an id that no stored entry has raises no error
\* and leaves getEntries() unchanged, and a second deleteEntry(id) would
\* leave the collection that the first one left.
C4_DeleteAbsentIsNoOp ==
  [][last'.op = "deleteEntry" =>
       /\ (last'.id \notin storedIds(stored))
            => (last'.ret = "ok" /\ stored' = stored)
       /\ deleteEntryUpdated(stored', last'.id) = stored']_vars

isArrayText(text) == text.syntax = "valid" /\ text.isArray

\* C5: importData of a text that parses to an array returns true, whatever
\* its elements are, and getEntries() is then exactly that array.
C5_ImportReplaces ==
  (last.op = "importData" /\ isArrayText(last.blob)) =>
    (last.ret = "true" /\ stored = last.blob.items)

\* a pretty-printed array of elements that are no entries was imported
C5_Witness ==
  /\ last.op = "importData"
  /\ last.ret = "true"
  /\ last.blob.ws
  /\ last.blob.items = <<ObjectElement, NullElement>>
  /\ stored = <<ObjectElement, NullElement>>

\* C6: importData of a text that does not parse, or parses to something
\* other than an array, returns false and leaves the item as it was.
C6_ImportFailureKeepsData ==
  [][(last'.op = "importData" /\ ~isArrayText(last'.blob))
       => (last'.ret = "false" /\ localStorage' = localStorage)]_vars

\* a parseable text that is no array was refused over a stored collection
C6_Witness ==
  /\ last.op = "importData"
  /\ last.blob = NonArrayText
  /\ last.ret = "false"
  /\ Len(stored) >= 2

\* C7: the exported file holds exactly the item, and importing it, into
\* whatever the store holds by then, makes getEntries() the collection of
\* the time of the export.
C7_ExportImportRoundTrip ==
  /\ (last.op = "exportData" /\ last.ret = "file")
       => (download = localStorage /\ exportedAt = stored)
  /\ (last.op = "importData" /\ download = <<last.blob>>)
       => (last.ret = "true" /\ stored = exportedAt)

\* the exported file, of two elements or more, was imported
C7_Witness ==
  /\ last.op = "importData"
  /\ download = <<last.blob>>
  /\ Len(exportedAt) >= 2
  /\ stored = exportedAt

\* C8: saveEntry and deleteEntry leave every stored element in the
\* collection, as often as it was there and with its fields as they were,
\* except the elements that deleteEntry(id) removes for having that id.
C8_StoredEntriesImmutable ==
  [][/\ last'.op = "saveEntry" =>
          \A x \in Range(stored) :
            Count(x, stored') = Count(x, stored)
              + (IF last'.ret = "ok" /\ x = last'.entry THEN 1 ELSE 0)
     /\ last'.op = "deleteEntry" =>
          \A x \in Range(stored) :
            x.id # last'.id => Count(x, stored') = Count(x, stored)]_vars

\* an entry was saved under an id that another stored entry has
C8_Witness ==
  /\ last.op = "saveEntry"
  /\ last.ret = "ok"
  /\ \E x \in Range(stored) : x # last.entry /\ x.id = last.entry.id

(***************************************************************************)
(* Properties of the application.                                          *)
(***************************************************************************)
absent(draft) == draft.amount = 0 \/ draft.source = "" \/ draft.date = ""

\* C2: submitting a form whose amount, source or date is absent ends in the
\* validation alert and leaves the item as it was.
C2_AbsentFieldNeverPersisted ==
  [][(event'.handler = "handleSubmit" /\ absent(event'.form))
       => (event'.outcome = "alert" /\ localStorage' = localStorage)]_vars

\* C9: no two stored entries have the same id.
C9_UniqueIds ==
  \A i, j \in 1..Len(stored) :
    (i # j /\ stored[i].kind = "entry" /\ stored[j].kind = "entry")
      => stored[i].id # stored[j].id

completedMutation ==
  \/ event.handler = "handleSubmit" /\ event.outcome = "added"
  \/ event.handler = "handleDeleteEntry" /\ event.outcome = "deleted"
  \/ event.handler = "readerOnload" /\ event.outcome = "imported"

\* C10: when an add, a confirmed delete or a successful import has
\* completed, the entries the mounted App holds are the persisted ones.
C10_EntriesFollowStore ==
  (phase = "mounted" /\ completedMutation) => entries = stored

\* an import completed after the user had left the dashboard and after
\* entries had been created
C10_Witness ==
  /\ phase = "mounted"
  /\ event.handler = "readerOnload"
  /\ event.outcome = "imported"
  /\ activeView = "history"
  /\ uuidCount > 0
  /\ stored # <<>>

(***************************************************************************)
(* Properties of the Insights view.                                        *)
(***************************************************************************)
\* C11: once no call of getFinancialInsights is in flight, the insight
\* text the view holds is the one produced for the entries it is now given,
\* whatever the order in which the calls settled.
C11_SupersededResultDiscarded ==
  (insightsShown /\ requests = <<>> /\ insights.kind \in {"narrative", "none"})
    => insights.of = entries

\* C14: when a call of getFinancialInsights has failed, fetchInsights leaves
\* the view with the static fallback text as its insight text and with its
\* loading flag false.
C14_FailureEndsInFallback ==
  (event.handler = "fetchInsights" /\ event.outcome = "rejected")
    => (insights = Fallback /\ loading = FALSE)

\* a call failed under a view that shows two entries, after another call
\* had given a text
C14_Witness ==
  /\ insightsShown
  /\ event.handler = "fetchInsights"
  /\ event.outcome = "rejected"
  /\ Len(entries) >= 2
  /\ insights = Fallback
  /\ requests = <<>>

(***************************************************************************)
(* Properties of the Scanner view.                                         *)
(***************************************************************************)
\* C12: extractSalaryFromImage never throws to its caller, so that the
\* catch clause of reader.onloadend, which holds that call alone, never runs.
C12_ExtractionNeverThrows ==
  ~(event.handler = "onloadend" /\ event.outcome = "Extraction failed")

\* C13: under any interleaving of uploads, edits of the form and extraction
\* responses, the item changes in no step but a submission of the form.
C13_StoreChangesOnlyOnSubmit ==
  [][localStorage' # localStorage => event'.handler = "handleSubmit"]_vars

\* an extraction was merged into the form, over a stored collection and
\* with another upload under way
C13_Witness ==
  /\ scannerShown
  /\ event.handler = "onloadend"
  /\ event.outcome = "merged"
  /\ form = Form(1000, "Acme", "2023-01-01")
  /\ extractions # <<>>
  /\ stored # <<>>

(***************************************************************************)
(* Properties of the figures.                                              *)
(***************************************************************************)
zero == Int2Num(0)
\* the value of an optional number, d when the entry has none
valueOr(x, d) == IF x = <<>> THEN d ELSE x[1]

\* C15: for every collection of entries, the keep rate and the momentum a
\* view has computed are finite numbers, at every place that computes them.
C15_RatesAreFinite ==
  report # <<>> =>
    /\ isFinite(report[1].stats.keepRate)
    /\ isFinite(report[1].stats.momentum)
    /\ isFinite(report[1].retentionRate)
    /\ report[1].analysis # <<>> => isFinite(report[1].analysis[1].retentionRate)

\* the figures of the views for the empty collection, but for the analysis
\* that holds the lifetime projection
neutralFigures(r) ==
  /\ r.stats = [totalNet |-> 0, totalGross |-> 0, totalDeductions |-> 0,
                momentum |-> zero, keepRate |-> zero, effectiveHourly |-> zero]
  /\ r.statsSecondVersion = [totalNet |-> 0, totalGross |-> 0, totalDeductions |-> 0]
  /\ r.statsTimeframeVersion = [totalNet |-> 0, totalGross |-> 0, totalDeductions |-> 0]
  /\ r.statsSixMonthVersion = [totalNet |-> 0, totalGross |-> 0, totalDeductions |-> 0]
  /\ r.retentionRate = zero
  /\ r.avgHourly = zero
  /\ r.chartData = <<>>
  /\ r.yearlySummary = <<>>
  /\ r.disbursementTotals = <<>>
  /\ r.disbursementStats = <<>>
  /\ r.compositionData = <<>>
  /\ r.selectedItemHistory = <<>>

\* C16, as stated: for the empty collection the totals, the keep rate, the
\* momentum, the effective hourly rate and the lifetime projection are 0 and
\* the monthly, yearly, disbursement, composition and line-item series are
\* empty.
C16_EmptyGivesZero ==
  (report # <<>> /\ ledger = <<>>) =>
    /\ neutralFigures(report[1])
    /\ report[1].analysis # <<>>
    /\ report[1].analysis[1].lifetimeProjection = zero

\* C16, amended: for the empty collection the totals, the keep rate, the
\* momentum and the effective hourly rate are 0 and the series are empty;
\* the analysis that holds the lifetime projection is null, no projection
\* being computed.
C16_EmptyGivesNeutral ==
  (report # <<>> /\ ledger = <<>>) =>
    /\ neutralFigures(report[1])
    /\ report[1].analysis = <<>>

\* the views were rendered anew for the empty collection, under a time
\* frame the user picked
C16_Witness ==
  /\ ledger = <<>>
  /\ report # <<>>
  /\ report[1].timeframe = "ALL"

\* C17: in every version of the Dashboard, totalDeductions is
\* totalGross - totalNet.
C17_DeductionsAreGrossLessNet ==
  report # <<>> =>
    \A v \in {report[1].stats.totalGross - report[1].stats.totalNet
                - report[1].stats.totalDeductions,
              report[1].statsSecondVersion.totalGross
                - report[1].statsSecondVersion.totalNet
                - report[1].statsSecondVersion.totalDeductions,
              report[1].statsTimeframeVersion.totalGross
                - report[1].statsTimeframeVersion.totalNet
                - report[1].statsTimeframeVersion.totalDeductions} : v = 0

\* the gross of an entry as C18 words it
grossPresentOrReconstructed(e) ==
  IF e.grossAmount # <<>> THEN e.grossAmount[1]
  ELSE e.amount + valueOr(e.tax, 0) + valueOr(e.deductions, 0)

\* C18: totalGross is the sum of grossAmount where an entry has one, 0
\* included, and of amount + tax + deductions where it has none, absent tax
\* and deductions counting 0.
C18_TotalGross ==
  report # <<>> =>
    /\ report[1].stats.totalGross = Sum(Map(ledger, grossPresentOrReconstructed))
    /\ report[1].statsTimeframeVersion.totalGross
         = Sum(Map(ledger, grossPresentOrReconstructed))
    /\ report[1].statsSixMonthVersion.totalGross
         = Sum(Map(ledger, grossPresentOrReconstructed))

\* the momentum as C19 words it: the windows average what totalGross sums
momentumOfTotalGross(shown) ==
  LET sorted == sortAscending(shown)
      average(w) ==
        IF w = <<>> THEN zero
        ELSE divide(Int2Num(Sum(Map(w, grossOrReconstructed))), Int2Num(Len(w)))
      avgFirst3 == average(first3(sorted))
      avgLast3 == average(last3(sorted))
  IN IF avgFirst3 = zero THEN zero
     ELSE times(divide(minus(avgLast3, avgFirst3), avgFirst3), Int2Num(100))

\* C19: the momentum is (avgLast3 - avgFirst3) / avgFirst3 * 100 over the
\* entries in ascending order of date, the windows being the first and the
\* last three entries and averaging the per-entry gross that totalGross
\* sums; it is 0 when avgFirst3 is 0.
C19_Momentum ==
  report # <<>> => report[1].stats.momentum = momentumOfTotalGross(ledger)

\* the hourly rate as C20 words it, for entries that have a grossAmount
\* wherever they have hours
hourlyOfGross(shown) ==
  LET worked == SelectSeq(shown, LAMBDA e : valueOr(e.workedHours, 0) > 0)
      hourly(e) == divide(Int2Num(e.grossAmount[1]), Int2Num(e.workedHours[1]))
  IN IF worked = <<>> THEN zero
     ELSE divide(SumNum(Map(worked, hourly)), Int2Num(Len(worked)))

\* C20: the effective hourly rate is the average of gross / workedHours over
\* the entries with workedHours > 0 and no others, and an entry with hours
\* and grossAmount 0 is counted with 0.
C20_EffectiveHourly ==
  (report # <<>>
     /\ \A i \in 1..Len(ledger) :
          valueOr(ledger[i].workedHours, 0) > 0 => ledger[i].grossAmount # <<>>)
    => /\ report[1].stats.effectiveHourly = hourlyOfGross(ledger)
       /\ report[1].analysis # <<>>
            => report[1].analysis[1].hourlyRate = hourlyOfGross(ledger)
       /\ report[1].avgHourly = hourlyOfGross(ledger)

\* x < 1 for a finite quotient x
belowOne(x) == x.n < x.d

\* the lifetime projection as C21 words it
projectionOverSpan(shown) ==
  LET sorted == sortAscending(shown)
      days == getTime(sorted[Len(sorted)].date).t - getTime(sorted[1].date).t
      monthsSpan == Rat(days * 100, 3044)
      divisor == IF belowOne(monthsSpan) THEN Int2Num(1) ELSE monthsSpan
  IN times(times(divide(Int2Num(Sum(Map(shown, grossOrNet))), divisor),
                 Int2Num(12)),
           Int2Num(35))

\* C21: the lifetime projection is (sum of gross / max(monthsSpan, 1)) * 12
\* * 35, monthsSpan being the days between the earliest and the latest date
\* / 30.44: for every span shorter than a month the divisor is 1.
C21_ProjectionDivisorAtLeastOne ==
  (report # <<>> /\ report[1].analysis # <<>>)
    => report[1].analysis[1].lifetimeProjection = projectionOverSpan(ledger)

\* the calendar year a bucket is labelled with
yearNumber(label) ==
  CASE label = "2023" -> 2023
    [] label = "2024" -> 2024
    [] OTHER -> 0

yearsPresent == { yearLabel(ledger[i].date) : i \in 1..Len(ledger) }

compositionTotals ==
  LET filtered == filteredEntries(ledger, report[1].timeframe)
  IN [name \in {"Net Take-Home", "Tax Withheld", "Other Deductions"} |->
        CASE name = "Net Take-Home" ->
               Sum(Map(filtered, LAMBDA e : e.amount))
          [] name = "Tax Withheld" ->
               Sum(Map(filtered, LAMBDA e : valueOr(e.tax, 0)))
          [] OTHER ->
               Sum(Map(filtered, LAMBDA e : valueOr(e.deductions, 0)))]

\* C24: the composition split omits a slice exactly when its total is 0: no
\* emitted slice has value 0, and every slice whose total is not 0 is
\* emitted with that total.
C24_SliceOmittedIffZero ==
  report # <<>> =>
    LET slices == report[1].compositionData
    IN /\ \A i \in 1..Len(slices) : slices[i].value # 0
       /\ \A name \in DOMAIN compositionTotals :
            compositionTotals[name] # 0 =>
              \E i \in 1..Len(slices) :
                /\ slices[i].name = name
                /\ slices[i].value = compositionTotals[name]

\* C30: the year-over-year growth of every bucket of the yearly rollup is a
\* finite number, also when the preceding bucket's gross is 0.
C30_GrowthIsFinite ==
  report # <<>> =>
    \A i \in 1..Len(report[1].yearlySummary) :
      isFinite(report[1].yearlySummary[i].growth)

\* C28: the loading flag of the Insights view is true whenever at least one
\* of its insight requests is in flight.
C28_LoadingWhileInFlight ==
  (insightsShown /\ requests # <<>>) => loading

\* the entries C26 says a time frame keeps
withinTimeframe(e, timeframe) ==
  CASE timeframe = "ALL" -> TRUE
    [] timeframe = "YTD" -> validDate(e) /\ yearLabel(e.date) = yearLabel(Today)
    [] timeframe = "1Y" ->
         /\ validDate(e)
         /\ getTime(twelveMonthsAgo).t <= time(e)
         /\ time(e) <= getTime(Today).t
    [] OTHER -> validDate(e) /\ yearLabel(e.date) = timeframe

\* C26: a time frame keeps every entry for "ALL", the entries of the current
\* calendar year for "YTD", the entries of year Y for a year string Y, and
\* the entries dated within the twelve months before today for "1Y"; the
\* Dashboard's monthly series and the Insights series select the same
\* entries for the same time frame.
C26_TimeframeSelection ==
  report # <<>> =>
    LET kept == SelectSeq(ledger,
                          LAMBDA e : withinTimeframe(e, report[1].timeframe))
    IN /\ report[1].filteredEntries = kept
       /\ report[1].chartDataEntries = kept
       /\ report[1].chartDataEntries = report[1].filteredEntries

\* the (bankCode, accountNo) pairs paid into, and the amount paid into one
paidInto == allDisbursements(ledger)
channels == { <<paidInto[i].bankCode, paidInto[i].accountNo>> :
                i \in 1..Len(paidInto) }
channelTotal(c) ==
  Sum(Map(SelectSeq(paidInto,
                    LAMBDA d : <<d.bankCode, d.accountNo>> = c),
          LAMBDA d : d.amount))

\* a rollup has one group per channel, and their totals are the channels'
groupsAreChannels(rollup) ==
  /\ Len(rollup) = Cardinality(channels)
  /\ \A c \in channels :
       Cardinality({i \in 1..Len(rollup) : rollup[i].total = channelTotal(c)})
         = Cardinality({b \in channels : channelTotal(b) = channelTotal(c)})

\* C23: every disbursement rollup groups by (bankCode, accountNo): the same
\* bankName with different accountNo gives separate groups whose totals do
\* not merge, and the same bankCode and accountNo give one group even when
\* the bankName differs.
C23_GroupedByCodeAndAccount ==
  report # <<>> =>
    /\ groupsAreChannels(report[1].disbursementStats)
    /\ groupsAreChannels(report[1].disbursementTotals)
    /\ groupsAreChannels(report[1].channelTotals)

\* C29: two disbursements whose (bankCode, accountNo) pairs differ are never
\* in the same group, whatever the strings hold, a '-' included: every pair
\* paid into has a group of its own in the Insights rollup, and the
\* Dashboard's rollup has no fewer groups than there are pairs.
C29_DistinctPairsDistinctGroups ==
  report # <<>> =>
    /\ \A c \in channels :
         \E i \in 1..Len(report[1].disbursementStats) :
           /\ report[1].disbursementStats[i].bankCode = c[1]
           /\ report[1].disbursementStats[i].accountNo = c[2]
    /\ Len(report[1].disbursementTotals) >= Cardinality(channels)

\* the currency C25 says a stored code is formatted with
currencyUsed(code) ==
  LET upper == toUpperCase(code)
  IN IF Len(upper) = 3 /\ \A i \in 1..3 : upper[i] \in UpperCaseLetters
     THEN upper
     ELSE USD

formattedWith(result, code) ==
  ~result.threw /\ result.currency = currencyUsed(code)

moneyAsStored ==
  report # <<>> =>
    /\ \A i \in 1..Len(ledger) :
         formattedWith(report[1].history[i], ledger[i].currency)
    /\ \A i \in 1..Len(report[1].dashboard) :
         formattedWith(report[1].dashboard[i], ledger[1].currency)
    /\ \A i \in 1..Len(report[1].dashboardTimeframe) :
         formattedWith(report[1].dashboardTimeframe[i], ledger[1].currency)

\* C25: every view that formats money uses the stored code upper-cased when
\* that is exactly three letters A-Z and USD otherwise (missing, wrong
\* length, non-letters), and formatting never changes the currency stored
\* in an entry.
C25_CurrencyOrUSD ==
  [][/\ moneyAsStored'
     /\ \A i \in 1..Len(ledger) : ledger'[i].currency = ledger[i].currency]_vars

notNaN(x) == x.kind # "NaN"

\* C27: invalid numeric inputs are coerced to 0 before aggregation: every
\* numeric field of an entry committed through the form, typed or merged
\* from an extraction result, is a number other than NaN, so that no total
\* over the stored entries is NaN.
C27_CommittedNumbers ==
  report # <<>> =>
    /\ \A i \in 1..Len(report[1].newEntry) :
         \A f \in DOMAIN report[1].newEntry[i] : notNaN(report[1].newEntry[i][f])
    /\ \A i \in 1..Len(ledger) :
         \A f \in DOMAIN ledger[i] : ledger[i][f].type = "number"
    /\ \A f \in DOMAIN report[1].stats : notNaN(report[1].stats[f])

====
